---- MODULE Spec2Model ----
(***************************************************************************)
(* Model of the oxide shell: the tokenizer, the redirect resolver, the     *)
(* command model and executor of src/src/lib.rs, and the interpreter loop  *)
(* of src/src/main.rs.                                                     *)
(*                                                                         *)
(* Text is a sequence of one-character strings, so that quoting, trimming  *)
(* and splitting are computed character by character as the code does.    *)
(***************************************************************************)
EXTENDS Naturals, Sequences, FiniteSets, TLC

VARIABLES
    \* ---- tokenize (lib.rs 216-259): the locals of one call
    tk_input,        \* the input string
    tk_rest,         \* the characters input.chars() has not yielded yet
    tk_args,         \* args
    tk_current,      \* current
    tk_single,       \* in_single
    tk_double,       \* in_double
    tk_backslash,    \* in_blackslash
    tk_result,       \* the returned vector, once the call has returned
    tk_returned,     \* whether the call has returned
    \* ---- split_redirect (lib.rs 261-289): one call
    sr_args,         \* the argument slice
    sr_result,       \* the returned pair, once the call has returned
    sr_returned,     \* whether the call has returned
    \* ---- the interpreter loop (main.rs) and the process around it
    loop,            \* "Running", "Terminated" (break at main.rs 29) or
                     \* "Aborted" (a panic unwound main)
    pc,              \* where the loop body stands: "prompt", "read", "exited"
    cwd,             \* the working directory of the process
    dirs,            \* the directories that exist
    files,           \* the regular files that exist: path |-> content
    home,            \* the HOME variable of the environment
    out,             \* what this iteration wrote to standard output
    err,             \* what this iteration wrote to standard error
    line,            \* the line last read, without its terminator
    tokens,          \* the words last handed to parse, <<>> if none were
    eof,             \* whether standard input has reached its end
    nread,           \* the number of lines read
    spawn,           \* the child the last command spawned, if any
    written          \* for each path, the texts the process has written to
                     \* it since it last overwrote it, in order

tkVars == <<tk_input, tk_rest, tk_args, tk_current, tk_single, tk_double,
            tk_backslash, tk_result, tk_returned>>
srVars == <<sr_args, sr_result, sr_returned>>
shVars == <<loop, pc, cwd, dirs, files, home, out, err, line, tokens, eof,
            nread, spawn, written>>
vars == <<tkVars, srVars, shVars>>

\* ------------------------------------------------------------------------
\* Bounds
\* ------------------------------------------------------------------------
MaxLen == 5        \* longest string handed to tokenize
MaxWords == 5      \* longest word sequence handed to split_redirect
MaxLines == 2      \* most lines standard input delivers before it ends

\* Option::None, as a value of the shape of a Redirect.
None == [kind |-> "None", file |-> <<>>]

\* All sequences over S of length at most n.
SeqsUpTo(S, n) == UNION {[1..k -> S] : k \in 0..n}

\* ------------------------------------------------------------------------
\* Text of the program
\* ------------------------------------------------------------------------
\* The verbs matched at lib.rs 26-34.
W_exit == <<"e", "x", "i", "t">>
W_echo == <<"e", "c", "h", "o">>
W_pwd == <<"p", "w", "d">>
W_type == <<"t", "y", "p", "e">>
W_cd == <<"c", "d">>
\* The path word replaced by HOME at lib.rs 110.
W_tilde == <<"~">>
\* The fallback of lib.rs 111 and the root directory.
RootDir == <<"/">>

\* The format strings of lib.rs 83, 85, 87, 118, 138 and 162.
MsgIsBuiltin == <<" ", "i", "s", " ", "a", " ", "s", "h", "e", "l", "l", " ", "b", "u", "i", "l", "t", "i", "n">>
MsgIs == <<" ", "i", "s", " ">>
MsgNotFound == <<":", " ", "n", "o", "t", " ", "f", "o", "u", "n", "d">>
MsgCd == <<"c", "d", ":", " ">>
MsgNoSuchDir == <<":", " ", "N", "o", " ", "s", "u", "c", "h", " ", "f", "i", "l", "e", " ", "o", "r", " ", "d", "i", "r", "e", "c", "t", "o", "r", "y">>
MsgCommandNotFound == <<":", " ", "c", "o", "m", "m", "a", "n", "d", " ", "n", "o", "t", " ", "f", "o", "u", "n", "d">>
\* The prompt suffix of main.rs 10; its second character is U+276F.
MsgPrompt == <<" ", "U+276F", " ">>
\* The line terminator added by println! and eprintln!.
NL == <<"\n">>
\* The report a panicking unwrap() leaves on standard error, as one unit.
PanicMessage == <<"thread 'main' panicked">>
\* The Display text of the io::Error of a failed set_current_dir, as one unit.
ChdirError == <<"Permission denied (os error 13)">>

\* ------------------------------------------------------------------------
\* The environment of the process
\* ------------------------------------------------------------------------
\* The directory below the root that exists when the shell starts.
SubDir == <<"/", "d">>

\* The program the executable lookup finds, and where.
FoundProgram == <<"l", "s">>
FoundProgramPath == <<"/", "b", "i", "n", "/", "l", "s">>

\* pathsearch::find_executable_in_path, called at lib.rs 84 and 161: the
\* path of the executable of that name on the search path, <<>> for none.
find_executable_in_path(name) ==
    IF name = FoundProgram THEN FoundProgramPath ELSE <<>>

\* built_in_commands::is_builtin, called at lib.rs 82.
is_builtin(name) == name \in {W_exit, W_echo, W_pwd, W_type, W_cd}

\* A byte that is not valid UTF-8, and what String::from_utf8_lossy makes of
\* it (U+FFFD).
InvalidByte == "0xFF"
ReplacementChar == "U+FFFD"

\* String::from_utf8_lossy, used at lib.rs 174-204.
from_utf8_lossy(bytes) ==
    [i \in 1..Len(bytes) |->
        IF bytes[i] = InvalidByte THEN ReplacementChar ELSE bytes[i]]

\* What a spawned child may write on its standard output and standard error.
ChildStdout == {<<>>, <<"o", InvalidByte, "\n">>}
ChildStderr == {<<>>, <<"e", InvalidByte, "\n">>}

\* The value of HOME: unset, or set to a path.
HomeUnset == [set |-> FALSE, value |-> <<>>]
HomeValues == {HomeUnset, [set |-> TRUE, value |-> SubDir]}

\* No child has been spawned by the current command; for a spawned child the
\* record holds the program, its arguments and the bytes captured from it.
NoSpawn == [spawned |-> FALSE, program |-> <<>>, args |-> <<>>,
            stdout |-> <<>>, stderr |-> <<>>]

\* ------------------------------------------------------------------------
\* tokenize
\* ------------------------------------------------------------------------
\* The characters the tokenizer is exercised on: a plain character, the two
\* whitespace characters it splits on, both quotes and the backslash.
TokAlphabet == {"a", " ", "\t", "'", "\"", "\\"}

\* lib.rs 217-221: the locals at the start of a call.
TokStart == [args |-> <<>>, current |-> <<>>, in_single |-> FALSE,
             in_double |-> FALSE, in_blackslash |-> FALSE]

\* A variant of the loop body that pushes the word without the
\* `!current.is_empty()` test of lib.rs 244.
TokStepPushEmpty(st, c) ==
    IF st.in_blackslash
    THEN [st EXCEPT !.current = Append(@, c), !.in_blackslash = FALSE]
    ELSE IF c = "'" /\ ~st.in_double THEN [st EXCEPT !.in_single = ~@]
    ELSE IF c = "\"" /\ ~st.in_single THEN [st EXCEPT !.in_double = ~@]
    ELSE IF c = "\\" /\ ~st.in_single THEN [st EXCEPT !.in_blackslash = TRUE]
    ELSE IF c \in {" ", "\t"} /\ ~st.in_single /\ ~st.in_double
    THEN [st EXCEPT !.args = Append(@, st.current), !.current = <<>>]
    ELSE [st EXCEPT !.current = Append(@, c)]

\* A variant of the loop body in which a backslash escapes only outside
\* both quote kinds (guard `!in_single && !in_double` at lib.rs 239).
TokStepNoEscapeInDouble(st, c) ==
    IF st.in_blackslash
    THEN [st EXCEPT !.current = Append(@, c), !.in_blackslash = FALSE]
    ELSE IF c = "'" /\ ~st.in_double THEN [st EXCEPT !.in_single = ~@]
    ELSE IF c = "\"" /\ ~st.in_single THEN [st EXCEPT !.in_double = ~@]
    ELSE IF c = "\\" /\ ~st.in_single /\ ~st.in_double
    THEN [st EXCEPT !.in_blackslash = TRUE]
    ELSE IF c \in {" ", "\t"} /\ ~st.in_single /\ ~st.in_double
    THEN IF st.current # <<>>
         THEN [st EXCEPT !.args = Append(@, st.current), !.current = <<>>]
         ELSE st
    ELSE [st EXCEPT !.current = Append(@, c)]

\* lib.rs 223-252: one iteration of `for c in input.chars()`.
TokStep(st, c) ==
    IF st.in_blackslash
    THEN [st EXCEPT !.current = Append(@, c), !.in_blackslash = FALSE]
    ELSE IF c = "'" /\ ~st.in_double THEN [st EXCEPT !.in_single = ~@]
    ELSE IF c = "\"" /\ ~st.in_single THEN [st EXCEPT !.in_double = ~@]
    ELSE IF c = "\\" /\ ~st.in_single THEN [st EXCEPT !.in_blackslash = TRUE]
    ELSE IF c \in {" ", "\t"} /\ ~st.in_single /\ ~st.in_double
    THEN IF st.current # <<>>
         THEN [st EXCEPT !.args = Append(@, st.current), !.current = <<>>]
         ELSE st
    ELSE [st EXCEPT !.current = Append(@, c)]

\* lib.rs 254-258: the final flush and the returned vector.
TokFlush(st) ==
    IF st.current # <<>> THEN Append(st.args, st.current) ELSE st.args

RECURSIVE TokRun(_, _)
\* lib.rs 223-252: the whole loop over the characters of s, from state st.
TokRun(st, s) ==
    IF s = <<>> THEN st ELSE TokRun(TokStep(st, Head(s)), Tail(s))

\* lib.rs 216-259.
tokenize(s) == TokFlush(TokRun(TokStart, s))

\* ------------------------------------------------------------------------
\* split_redirect
\* ------------------------------------------------------------------------

\* The operator words matched at lib.rs 262, 270, 278 and 283.
AppendStdoutOps == {<<">", ">">>, <<"1", ">", ">">>}
AppendStderrOps == {<<"2", ">", ">">>}
StderrOps == {<<"2", ">">>}
StdoutOps == {<<">">>, <<"1", ">">>}

\* args.iter().position(|a| a is in ops), 1-based; 0 stands for Option::None.
Position(args, ops) ==
    IF \E i \in 1..Len(args) : args[i] \in ops
    THEN CHOOSE i \in 1..Len(args) :
            args[i] \in ops /\ \A j \in 1..(i - 1) : args[j] \notin ops
    ELSE 0

\* `if let Some(pos) = ... { if pos + 1 < args.len() {` (pos is 0-based there).
Honored(args, ops) == Position(args, ops) # 0 /\ Position(args, ops) < Len(args)

\* The pair returned for the operator found at Position(args, ops).
SplitAt(args, ops, kind) ==
    [args |-> SubSeq(args, 1, Position(args, ops) - 1),
     redirect |-> [kind |-> kind, file |-> args[Position(args, ops) + 1]]]

\* A variant that looks for the overwrite operators before the append ones.
split_redirect_overwrite_first(args) ==
    IF Honored(args, StdoutOps) THEN SplitAt(args, StdoutOps, "Stdout")
    ELSE IF Honored(args, StderrOps) THEN SplitAt(args, StderrOps, "Stderr")
    ELSE IF Honored(args, AppendStderrOps)
    THEN SplitAt(args, AppendStderrOps, "AppendStderr")
    ELSE IF Honored(args, AppendStdoutOps)
    THEN SplitAt(args, AppendStdoutOps, "AppendStdout")
    ELSE [args |-> args, redirect |-> None]

\* A variant that drops an operator found as the last word.
split_redirect_strip_dangling(args) ==
    IF Honored(args, AppendStdoutOps)
    THEN SplitAt(args, AppendStdoutOps, "AppendStdout")
    ELSE IF Honored(args, AppendStderrOps)
    THEN SplitAt(args, AppendStderrOps, "AppendStderr")
    ELSE IF Honored(args, StderrOps) THEN SplitAt(args, StderrOps, "Stderr")
    ELSE IF Honored(args, StdoutOps) THEN SplitAt(args, StdoutOps, "Stdout")
    ELSE IF args # <<>> /\ args[Len(args)] \in
              (AppendStdoutOps \cup AppendStderrOps \cup StderrOps \cup StdoutOps)
    THEN [args |-> SubSeq(args, 1, Len(args) - 1), redirect |-> None]
    ELSE [args |-> args, redirect |-> None]

\* lib.rs 261-289.
split_redirect(args) ==
    IF Honored(args, AppendStdoutOps)
    THEN SplitAt(args, AppendStdoutOps, "AppendStdout")
    ELSE IF Honored(args, AppendStderrOps)
    THEN SplitAt(args, AppendStderrOps, "AppendStderr")
    ELSE IF Honored(args, StderrOps) THEN SplitAt(args, StderrOps, "Stderr")
    ELSE IF Honored(args, StdoutOps) THEN SplitAt(args, StdoutOps, "Stdout")
    ELSE [args |-> args, redirect |-> None]

\* ------------------------------------------------------------------------
\* The file system, as the calls of lib.rs and main.rs see it
\* ------------------------------------------------------------------------
\* The position of the last "/" of an absolute path.
LastSlash(p) == CHOOSE i \in 1..Len(p) :
                    p[i] = "/" /\ \A j \in (i + 1)..Len(p) : p[j] # "/"

\* The directory that holds the entry named by an absolute path.
Parent(p) == IF LastSlash(p) = 1 THEN RootDir ELSE SubSeq(p, 1, LastSlash(p) - 1)

\* cur.components().last() of main.rs 9.
LastComponent(p) ==
    IF p = RootDir THEN RootDir ELSE SubSeq(p, LastSlash(p) + 1, Len(p))

\* The absolute path a path word names when the working directory is dir.
Resolve(dir, p) ==
    IF p # <<>> /\ p[1] = "/" THEN p
    ELSE IF dir = RootDir THEN RootDir \o p
    ELSE dir \o <<"/">> \o p

\* Path::new(target).is_dir() of lib.rs 116.
is_dir(w, target) == Resolve(w.cwd, target) \in w.dirs

\* No file was written.
NoWrote == [done |-> FALSE, path |-> <<>>, text |-> <<>>, append |-> FALSE]

\* A variant of the file write whose append mode truncates the file.
FsWriteTruncates(w, file, bytes, append) ==
    LET path == Resolve(w.cwd, file)
        ok == path \notin w.dirs /\ Parent(path) \in w.dirs
        old == <<>>
    IN [ok |-> ok,
        files |-> IF ok
                  THEN [q \in DOMAIN w.files \cup {path} |->
                            IF q = path THEN old \o bytes ELSE w.files[q]]
                  ELSE w.files,
        wrote |-> IF ok
                  THEN [done |-> TRUE, path |-> path, text |-> bytes,
                        append |-> append]
                  ELSE NoWrote]

\* std::fs::write (append = FALSE) and OpenOptions append+create followed by
\* write_all (append = TRUE), lib.rs 173-199 and 294-317: the call fails when
\* the path names a directory or its parent directory does not exist.  The
\* result tells whether the call succeeded, the files after it, and which
\* bytes went to which path in which mode.
FsWrite(w, file, bytes, append) ==
    LET path == Resolve(w.cwd, file)
        ok == path \notin w.dirs /\ Parent(path) \in w.dirs
        old == IF append /\ path \in DOMAIN w.files THEN w.files[path] ELSE <<>>
    IN [ok |-> ok,
        files |-> IF ok
                  THEN [q \in DOMAIN w.files \cup {path} |->
                            IF q = path THEN old \o bytes ELSE w.files[q]]
                  ELSE w.files,
        wrote |-> IF ok
                  THEN [done |-> TRUE, path |-> path, text |-> bytes,
                        append |-> append]
                  ELSE NoWrote]

\* The files of a command that writes none.
NoWrite(w) == [ok |-> TRUE, files |-> w.files, wrote |-> NoWrote]

\* ------------------------------------------------------------------------
\* ShellCommand::parse
\* ------------------------------------------------------------------------
Command(variant, name, args) == [variant |-> variant, name |-> name, args |-> args]

\* lib.rs 24-41; toks is not empty.
parse(toks) ==
    IF toks[1] = W_exit THEN Command("Exit", <<>>, <<>>)
    ELSE IF toks[1] = W_echo THEN Command("Echo", <<>>, Tail(toks))
    ELSE IF toks[1] = W_pwd THEN Command("Pwd", <<>>, <<>>)
    ELSE IF toks[1] = W_type
    THEN IF Len(toks) >= 2
         THEN Command("Type", toks[2], Tail(toks))
         ELSE Command("Empty", <<>>, <<>>)
    ELSE IF toks[1] = W_cd
    THEN IF Len(toks) >= 2
         THEN Command("Cd", toks[2], Tail(toks))
         ELSE Command("Empty", <<>>, <<>>)
    ELSE Command("External", toks[1], Tail(toks))

\* ------------------------------------------------------------------------
\* write_output and ShellCommand::execute
\* ------------------------------------------------------------------------
RECURSIVE join(_)
\* real_args.join(" ") of lib.rs 51.
join(words) ==
    IF words = <<>> THEN <<>>
    ELSE IF Len(words) = 1 THEN words[1]
    ELSE words[1] \o <<" ">> \o join(Tail(words))

IsAppend(r) == r.kind \in {"AppendStdout", "AppendStderr"}

\* lib.rs 291-323: what the call prints, the files after it, and whether one
\* of its unwrap() calls panicked.
write_output(w, text, r) ==
    IF r.kind = "None"
    THEN [panicked |-> FALSE, out |-> text \o NL, files |-> w.files,
          wrote |-> NoWrote]
    ELSE LET wr == FsWrite(w, r.file, text, IsAppend(r)) IN
         [panicked |-> ~wr.ok, out |-> <<>>, files |-> wr.files,
          wrote |-> wr.wrote]

\* The outcome of execute: the returned flag, whether the call panicked
\* instead of returning, what it wrote to standard output and standard
\* error, the files after it and the write that made them (wr), the working
\* directory after it, and the child it spawned.
Effect(cont, panicked, stdout, stderr, wr, dir, child) ==
    [cont |-> cont, panicked |-> panicked, out |-> stdout,
     err |-> IF panicked THEN stderr \o PanicMessage ELSE stderr,
     files |-> wr.files, wrote |-> wr.wrote, cwd |-> dir, spawn |-> child]

\* A variant of the Exit arm that returns true.
ExecExitContinues(w) == Effect(TRUE, FALSE, <<>>, <<>>, NoWrite(w), w.cwd, NoSpawn)

\* lib.rs 47.
ExecExit(w) == Effect(FALSE, FALSE, <<>>, <<>>, NoWrite(w), w.cwd, NoSpawn)

\* A variant of the Echo arm without the push of '\n' at lib.rs 58 and 62.
ExecEchoNoNewline(w, args) ==
    LET sr == split_redirect(args)
        output == join(sr.args)
        r == sr.redirect
    IN  IF r.kind \in {"Stderr", "AppendStderr"}
        THEN LET wo == write_output(w, <<>>, r) IN
             Effect(TRUE, wo.panicked, output \o NL, <<>>, wo, w.cwd, NoSpawn)
        ELSE IF r.kind \in {"Stdout", "AppendStdout"}
        THEN LET wo == write_output(w, output, r) IN
             Effect(TRUE, wo.panicked, wo.out, <<>>, wo, w.cwd, NoSpawn)
        ELSE Effect(TRUE, FALSE, output \o NL, <<>>, NoWrite(w), w.cwd, NoSpawn)

\* A variant of the Echo arm that sends the text to the file of a stderr
\* redirection instead of printing it.
ExecEchoStderrToFile(w, args) ==
    LET sr == split_redirect(args)
        output == join(sr.args)
        r == sr.redirect
    IN  IF r.kind \in {"Stderr", "AppendStderr", "Stdout", "AppendStdout"}
        THEN LET wo == write_output(w, output \o NL, r) IN
             Effect(TRUE, wo.panicked, wo.out, <<>>, wo, w.cwd, NoSpawn)
        ELSE Effect(TRUE, FALSE, output \o NL, <<>>, NoWrite(w), w.cwd, NoSpawn)

\* lib.rs 49-71.
ExecEcho(w, args) ==
    LET sr == split_redirect(args)
        output == join(sr.args)
        r == sr.redirect
    IN  IF r.kind \in {"Stderr", "AppendStderr"}
        THEN LET wo == write_output(w, <<>>, r) IN
             Effect(TRUE, wo.panicked, output \o NL \o wo.out, <<>>, wo,
                    w.cwd, NoSpawn)
        ELSE IF r.kind \in {"Stdout", "AppendStdout"}
        THEN LET wo == write_output(w, output \o NL, r) IN
             Effect(TRUE, wo.panicked, wo.out, <<>>, wo, w.cwd, NoSpawn)
        ELSE Effect(TRUE, FALSE, output \o NL, <<>>, NoWrite(w), w.cwd, NoSpawn)

\* lib.rs 73-77: current_dir() fails when the working directory is gone.
ExecPwd(w) ==
    IF w.cwd \notin w.dirs
    THEN Effect(TRUE, TRUE, <<>>, <<>>, NoWrite(w), w.cwd, NoSpawn)
    ELSE LET wo == write_output(w, w.cwd, None) IN
         Effect(TRUE, wo.panicked, wo.out, <<>>, wo, w.cwd, NoSpawn)

\* lib.rs 82-88: the line Type reports.
TypeOutput(name) ==
    IF is_builtin(name) THEN name \o MsgIsBuiltin
    ELSE IF find_executable_in_path(name) # <<>>
    THEN name \o MsgIs \o find_executable_in_path(name)
    ELSE name \o MsgNotFound

\* lib.rs 90-105: where Type sends its line.
TypeReport(w, output, r) ==
        IF r.kind = "Stderr"
        THEN LET wo == write_output(w, <<>>, r) IN
             Effect(TRUE, wo.panicked, output \o NL \o wo.out, <<>>, wo,
                    w.cwd, NoSpawn)
        ELSE IF r.kind \in {"Stdout", "AppendStdout", "AppendStderr"}
        THEN LET wo == write_output(w, output, r) IN
             Effect(TRUE, wo.panicked, wo.out, <<>>, wo, w.cwd, NoSpawn)
        ELSE Effect(TRUE, FALSE, output \o NL, <<>>, NoWrite(w), w.cwd, NoSpawn)

\* lib.rs 79-106.
ExecType(w, name, args) ==
    TypeReport(w, TypeOutput(name), split_redirect(args).redirect)

\* lib.rs 119-135 and 139-155: where Cd sends an error message.
CdReport(w, error_msg, r) ==
    IF r.kind = "None"
    THEN Effect(TRUE, FALSE, <<>>, error_msg \o NL, NoWrite(w), w.cwd, NoSpawn)
    ELSE LET wo == write_output(w, error_msg, r) IN
         Effect(TRUE, wo.panicked, wo.out, <<>>, wo, w.cwd, NoSpawn)

\* The directory Cd goes to, lib.rs 110-114.
Target(w, path) ==
    IF path = W_tilde
    THEN IF w.home.set THEN w.home.value ELSE RootDir
    ELSE path

\* A variant of the Cd arm that reports nothing for a missing directory.
ExecCdSilent(w, path, args, chdir_ok) ==
    LET r == split_redirect(args).redirect
        target == Target(w, path)
    IN  IF is_dir(w, target)
        THEN IF chdir_ok
             THEN Effect(TRUE, FALSE, <<>>, <<>>, NoWrite(w),
                         Resolve(w.cwd, target), NoSpawn)
             ELSE CdReport(w, MsgCd \o ChdirError, r)
        ELSE Effect(TRUE, FALSE, <<>>, <<>>, NoWrite(w), w.cwd, NoSpawn)

\* A variant of the Cd arm without the is_dir test of lib.rs 116.
ExecCdUnchecked(w, path, args, chdir_ok) ==
    LET r == split_redirect(args).redirect
        target == Target(w, path)
    IN  IF chdir_ok
        THEN Effect(TRUE, FALSE, <<>>, <<>>, NoWrite(w),
                    Resolve(w.cwd, target), NoSpawn)
        ELSE CdReport(w, MsgCd \o ChdirError, r)

\* lib.rs 108-157; chdir_ok tells whether set_current_dir succeeds.
ExecCd(w, path, args, chdir_ok) ==
    LET r == split_redirect(args).redirect
        target == Target(w, path)
    IN  IF is_dir(w, target)
        THEN IF chdir_ok
             THEN Effect(TRUE, FALSE, <<>>, <<>>, NoWrite(w),
                         Resolve(w.cwd, target), NoSpawn)
             ELSE CdReport(w, MsgCd \o ChdirError, r)
        ELSE CdReport(w, MsgCd \o target \o MsgNoSuchDir, r)

\* A variant of the External arm that sends the `command not found` line
\* through the redirection.
ExecExternalRedirectsNotFound(w, cmd, args, spawn_ok, child_out, child_err) ==
    LET sr == split_redirect(args)
        r == sr.redirect
        child == [spawned |-> TRUE, program |-> cmd, args |-> sr.args,
                  stdout |-> child_out, stderr |-> child_err]
    IN  IF find_executable_in_path(cmd) = <<>>
        THEN LET wo == write_output(w, cmd \o MsgCommandNotFound, r) IN
             Effect(TRUE, wo.panicked, wo.out, <<>>, wo, w.cwd, NoSpawn)
        ELSE IF ~spawn_ok
        THEN Effect(TRUE, TRUE, <<>>, <<>>, NoWrite(w), w.cwd, NoSpawn)
        ELSE IF r.kind \in {"Stdout", "AppendStdout"}
        THEN LET wr == FsWrite(w, r.file, child_out, IsAppend(r)) IN
             Effect(TRUE, ~wr.ok, <<>>,
                    IF wr.ok THEN from_utf8_lossy(child_err) ELSE <<>>,
                    wr, w.cwd, child)
        ELSE IF r.kind = "Stderr"
        THEN LET wr == FsWrite(w, r.file, child_err, FALSE) IN
             Effect(TRUE, ~wr.ok,
                    IF wr.ok THEN from_utf8_lossy(child_out) ELSE <<>>, <<>>,
                    wr, w.cwd, child)
        ELSE IF r.kind = "AppendStderr"
        THEN LET wr == FsWrite(w, r.file, child_err, TRUE) IN
             Effect(TRUE, ~wr.ok, <<>>,
                    IF wr.ok THEN from_utf8_lossy(child_out) ELSE <<>>,
                    wr, w.cwd, child)
        ELSE Effect(TRUE, FALSE, from_utf8_lossy(child_out),
                    from_utf8_lossy(child_err), NoWrite(w), w.cwd, child)

\* A variant of the External arm that hands the child every argument word,
\* operator and target included.
ExecExternalAllArgs(w, cmd, args, spawn_ok, child_out, child_err) ==
    LET sr == split_redirect(args)
        r == sr.redirect
        child == [spawned |-> TRUE, program |-> cmd, args |-> args,
                  stdout |-> child_out, stderr |-> child_err]
    IN  IF find_executable_in_path(cmd) = <<>>
        THEN Effect(TRUE, FALSE, cmd \o MsgCommandNotFound \o NL, <<>>,
                    NoWrite(w), w.cwd, NoSpawn)
        ELSE IF ~spawn_ok
        THEN Effect(TRUE, TRUE, <<>>, <<>>, NoWrite(w), w.cwd, NoSpawn)
        ELSE IF r.kind \in {"Stdout", "AppendStdout"}
        THEN LET wr == FsWrite(w, r.file, child_out, IsAppend(r)) IN
             Effect(TRUE, ~wr.ok, <<>>,
                    IF wr.ok THEN from_utf8_lossy(child_err) ELSE <<>>,
                    wr, w.cwd, child)
        ELSE IF r.kind = "Stderr"
        THEN LET wr == FsWrite(w, r.file, child_err, FALSE) IN
             Effect(TRUE, ~wr.ok,
                    IF wr.ok THEN from_utf8_lossy(child_out) ELSE <<>>, <<>>,
                    wr, w.cwd, child)
        ELSE IF r.kind = "AppendStderr"
        THEN LET wr == FsWrite(w, r.file, child_err, TRUE) IN
             Effect(TRUE, ~wr.ok, <<>>,
                    IF wr.ok THEN from_utf8_lossy(child_out) ELSE <<>>,
                    wr, w.cwd, child)
        ELSE Effect(TRUE, FALSE, from_utf8_lossy(child_out),
                    from_utf8_lossy(child_err), NoWrite(w), w.cwd, child)

\* lib.rs 159-207; spawn_ok tells whether Command::output() succeeds, and
\* child_out and child_err are the bytes captured from the child.
ExecExternal(w, cmd, args, spawn_ok, child_out, child_err) ==
    LET sr == split_redirect(args)
        r == sr.redirect
        child == [spawned |-> TRUE, program |-> cmd, args |-> sr.args,
                  stdout |-> child_out, stderr |-> child_err]
    IN  IF find_executable_in_path(cmd) = <<>>
        THEN Effect(TRUE, FALSE, cmd \o MsgCommandNotFound \o NL, <<>>,
                    NoWrite(w), w.cwd, NoSpawn)
        ELSE IF ~spawn_ok
        THEN Effect(TRUE, TRUE, <<>>, <<>>, NoWrite(w), w.cwd, NoSpawn)
        ELSE IF r.kind \in {"Stdout", "AppendStdout"}
        THEN LET wr == FsWrite(w, r.file, child_out, IsAppend(r)) IN
             Effect(TRUE, ~wr.ok, <<>>,
                    IF wr.ok THEN from_utf8_lossy(child_err) ELSE <<>>,
                    wr, w.cwd, child)
        ELSE IF r.kind = "Stderr"
        THEN LET wr == FsWrite(w, r.file, child_err, FALSE) IN
             Effect(TRUE, ~wr.ok,
                    IF wr.ok THEN from_utf8_lossy(child_out) ELSE <<>>, <<>>,
                    wr, w.cwd, child)
        ELSE IF r.kind = "AppendStderr"
        THEN LET wr == FsWrite(w, r.file, child_err, TRUE) IN
             Effect(TRUE, ~wr.ok, <<>>,
                    IF wr.ok THEN from_utf8_lossy(child_out) ELSE <<>>,
                    wr, w.cwd, child)
        ELSE Effect(TRUE, FALSE, from_utf8_lossy(child_out),
                    from_utf8_lossy(child_err), NoWrite(w), w.cwd, child)

\* lib.rs 209.
ExecEmpty(w) == Effect(TRUE, FALSE, <<>>, <<>>, NoWrite(w), w.cwd, NoSpawn)

\* lib.rs 43-213; os holds what the operating system decides during the call.
execute(w, command, os) ==
    CASE command.variant = "Exit" -> ExecExit(w)
      [] command.variant = "Echo" -> ExecEcho(w, command.args)
      [] command.variant = "Pwd" -> ExecPwd(w)
      [] command.variant = "Type" -> ExecType(w, command.name, command.args)
      [] command.variant = "Cd" ->
            ExecCd(w, command.name, command.args, os.chdir_ok)
      [] command.variant = "External" ->
            ExecExternal(w, command.name, command.args, os.spawn_ok,
                         os.child_out, os.child_err)
      [] command.variant = "Empty" -> ExecEmpty(w)

\* ------------------------------------------------------------------------
\* The words main hands to parse
\* ------------------------------------------------------------------------
\* The characters char::is_whitespace accepts, among those of the model.
RustWhitespace == {" ", "\t", "\n"}

RECURSIVE trim_start(_)
trim_start(s) ==
    IF s # <<>> /\ Head(s) \in RustWhitespace THEN trim_start(Tail(s)) ELSE s

RECURSIVE trim_end(_)
trim_end(s) ==
    IF s # <<>> /\ s[Len(s)] \in RustWhitespace
    THEN trim_end(SubSeq(s, 1, Len(s) - 1)) ELSE s

\* str::trim, main.rs 21.
trim(s) == trim_end(trim_start(s))

RECURSIVE SplitFrom(_, _, _)
\* The words of s after the words acc and the unfinished word cur.
SplitFrom(s, cur, acc) ==
    IF s = <<>> THEN (IF cur # <<>> THEN Append(acc, cur) ELSE acc)
    ELSE IF Head(s) \in RustWhitespace
    THEN SplitFrom(Tail(s), <<>>, IF cur # <<>> THEN Append(acc, cur) ELSE acc)
    ELSE SplitFrom(Tail(s), Append(cur, Head(s)), acc)

\* str::split_whitespace, main.rs 21.
split_whitespace(s) == SplitFrom(s, <<>>, <<>>)

\* main.rs 21: the words of the line read into `input`.
MainTokens(input) == split_whitespace(trim(input))

\* ------------------------------------------------------------------------
\* The input lines
\* ------------------------------------------------------------------------
A == <<"a">>
F == <<"f">>
D == <<"d">>
\* A program name the executable lookup does not find.
MissingProgram == <<"n", "x">>

\* What may follow the operands of a command: nothing, a lone operator, or
\* an operator with a target that is a file or a directory.
Suffixes ==
    {<<>>, <<(<<">">>)>>, <<(<<">">>), D>>}
        \cup {<<op, F>> : op \in {<<">">>, <<">", ">">>, <<"2", ">">>,
                                  <<"2", ">", ">">>}}

EchoOperands == {<<>>, <<A>>, <<A, A>>}
TypeNames == {W_cd, FoundProgram, A}
CdPaths == {D, A, W_tilde, RootDir}
ExternalOperands == {<<>>, <<A>>}

\* The word lists the lines are made of, by verb; the last three are a quoted
\* operand and operands that look like operators.
WordLists ==
    {<<W_exit>> \o s : s \in {<<>>, <<A>>}}
        \cup {<<W_pwd>> \o s : s \in {<<>>, <<(<<">">>), F>>}}
        \cup {<<W_echo>> \o o \o s : o \in EchoOperands, s \in Suffixes}
        \cup {<<W_type>>}
        \cup {<<W_type, n>> \o s : n \in TypeNames, s \in Suffixes}
        \cup {<<W_cd>>}
        \cup {<<W_cd, p>> \o s : p \in CdPaths, s \in Suffixes}
        \cup {<<FoundProgram>> \o o \o s : o \in ExternalOperands, s \in Suffixes}
        \cup {<<MissingProgram>> \o s : s \in {<<>>, <<(<<">">>), F>>}}
        \cup {<<W_echo, (<<"'", "a">>), (<<"a", "'">>)>>,
              <<W_type, (<<">">>), F>>,
              <<W_cd, (<<">", ">">>), F>>}

\* Lines that hold no word, and a line with surrounding and repeated
\* whitespace.
RawLines == {<<>>, <<" ", "\t">>,
             <<" ">> \o W_echo \o <<" ", "\t">> \o A \o <<" ">>}

\* The lines standard input may deliver, without their terminator.
Lines == {join(ws) : ws \in WordLists} \cup RawLines

\* ------------------------------------------------------------------------
\* Initial states
\* ------------------------------------------------------------------------
\* The variables of tokenize and of split_redirect while no call is exercised.
TkIdle ==
    /\ tk_input = <<>> /\ tk_rest = <<>> /\ tk_args = <<>>
    /\ tk_current = <<>> /\ tk_single = FALSE /\ tk_double = FALSE
    /\ tk_backslash = FALSE /\ tk_result = <<>> /\ tk_returned = FALSE

SrIdle ==
    /\ sr_args = <<>> /\ sr_returned = FALSE
    /\ sr_result = [args |-> <<>>, redirect |-> None]

World == [cwd |-> cwd, dirs |-> dirs, files |-> files, home |-> home]

\* The operating system's decisions when neither a directory change nor a
\* spawn is attempted.
NoOs == [chdir_ok |-> TRUE, spawn_ok |-> TRUE, child_out |-> <<>>,
         child_err |-> <<>>]

ShInit ==
    /\ loop = "Running"
    /\ pc = "prompt"
    /\ cwd = RootDir
    /\ dirs = {RootDir, SubDir}
    /\ files = << >>
    /\ home \in HomeValues
    /\ out = <<>>
    /\ err = <<>>
    /\ line = <<>>
    /\ tokens = <<>>
    /\ eof = FALSE
    /\ nread = 0
    /\ spawn = NoSpawn
    /\ written = << >>

\* The shell variables while only tokenize or split_redirect is exercised.
ShIdle == ShInit /\ home = HomeUnset

\* ------------------------------------------------------------------------
\* tokenize, one call step by step
\* ------------------------------------------------------------------------
\* The locals of the call in progress, as a record.
TkState == [args |-> tk_args, current |-> tk_current, in_single |-> tk_single,
            in_double |-> tk_double, in_blackslash |-> tk_backslash]

\* A call tokenize(input) is entered with any bounded input.
TokInit ==
    /\ tk_input \in SeqsUpTo(TokAlphabet, MaxLen)
    /\ tk_rest = tk_input
    /\ tk_args = TokStart.args
    /\ tk_current = TokStart.current
    /\ tk_single = TokStart.in_single
    /\ tk_double = TokStart.in_double
    /\ tk_backslash = TokStart.in_blackslash
    /\ tk_result = <<>>
    /\ tk_returned = FALSE
    /\ SrIdle
    /\ ShIdle

\* One iteration of the loop at lib.rs 223-252.
TokChar ==
    /\ ~tk_returned
    /\ tk_rest # <<>>
    /\ LET st == TokStep(TkState, Head(tk_rest)) IN
        /\ tk_args' = st.args
        /\ tk_current' = st.current
        /\ tk_single' = st.in_single
        /\ tk_double' = st.in_double
        /\ tk_backslash' = st.in_blackslash
    /\ tk_rest' = Tail(tk_rest)
    /\ UNCHANGED <<tk_input, tk_result, tk_returned, srVars, shVars>>

\* The loop has ended: flush and return (lib.rs 254-258).
TokReturn ==
    /\ ~tk_returned
    /\ tk_rest = <<>>
    /\ tk_returned' = TRUE
    /\ tk_result' = TokFlush(TkState)
    /\ tk_args' = TokFlush(TkState)
    /\ tk_current' = <<>>
    /\ UNCHANGED <<tk_input, tk_rest, tk_single, tk_double, tk_backslash, srVars,
                   shVars>>

TokNext == TokChar \/ TokReturn

TokSpec == TokInit /\ [][TokNext]_vars

\* ------------------------------------------------------------------------
\* split_redirect, one call
\* ------------------------------------------------------------------------
\* The words split_redirect is exercised on: every operator spelling and
\* two plain words.
SrWords == AppendStdoutOps \cup AppendStderrOps \cup StderrOps \cup StdoutOps
              \cup {<<"x">>, <<"f">>}

\* A call split_redirect(args) is entered with any bounded word sequence.
SrInit ==
    /\ sr_args \in SeqsUpTo(SrWords, MaxWords)
    /\ sr_result = [args |-> <<>>, redirect |-> None]
    /\ sr_returned = FALSE
    /\ TkIdle
    /\ ShIdle

\* The call returns (lib.rs 261-289).
SrCall ==
    /\ ~sr_returned
    /\ sr_returned' = TRUE
    /\ sr_result' = split_redirect(sr_args)
    /\ UNCHANGED <<sr_args, tkVars, shVars>>

SrNext == SrCall

SrSpec == SrInit /\ [][SrNext]_vars

\* ------------------------------------------------------------------------
\* The interpreter loop (main.rs)
\* ------------------------------------------------------------------------
\* main.rs 8-14: a new iteration starts (the locals of the previous one are
\* gone) and prints the prompt; current_dir().unwrap() panics when the
\* working directory is gone.
Prompt ==
    /\ loop = "Running"
    /\ pc = "prompt"
    /\ IF cwd \in dirs
       THEN /\ out' = LastComponent(cwd) \o MsgPrompt
            /\ err' = <<>>
            /\ pc' = "read"
            /\ loop' = loop
       ELSE /\ out' = <<>>
            /\ err' = PanicMessage
            /\ pc' = "exited"
            /\ loop' = "Aborted"
    /\ line' = <<>>
    /\ tokens' = <<>>
    /\ spawn' = NoSpawn
    /\ UNCHANGED <<cwd, dirs, files, home, eof, nread, written, tkVars,
                   srVars>>

\* main.rs 16-24: read_line returns Ok(0) at end of input; `input` stays
\* empty, so does `tokens`, and the loop continues.
ReadEof ==
    /\ loop = "Running"
    /\ pc = "read"
    /\ eof' = TRUE
    /\ line' = <<>>
    /\ tokens' = MainTokens(<<>>)
    /\ pc' = "prompt"
    /\ UNCHANGED <<loop, cwd, dirs, files, home, out, err, nread, spawn,
                   written, tkVars, srVars>>

\* main.rs 17-19: read_line returns Err; the loop continues.
ReadError ==
    /\ loop = "Running"
    /\ pc = "read"
    /\ ~eof
    /\ line' = <<>>
    /\ tokens' = <<>>
    /\ pc' = "prompt"
    /\ UNCHANGED <<loop, cwd, dirs, files, home, out, err, eof, nread, spawn,
                   written, tkVars, srVars>>

\* The command variants of lib.rs 6-14.
Variants == {"Exit", "Echo", "Pwd", "Type", "Cd", "External", "Empty"}

\* main.rs 21-26: the lines without words, and the lines that parse to each
\* variant.
BlankLines == {l \in Lines : MainTokens(l \o NL) = <<>>}
LinesOf == [v \in Variants |->
               {l \in Lines \ BlankLines : parse(MainTokens(l \o NL)).variant = v}]

\* read_line can deliver one more line.
CanRead ==
    /\ loop = "Running"
    /\ pc = "read"
    /\ ~eof
    /\ nread < MaxLines

\* main.rs 16-24: a line without words; the loop continues.
ReadBlank ==
    \E l \in BlankLines :
        /\ CanRead
        /\ line' = l
        /\ tokens' = MainTokens(l \o NL)
        /\ nread' = nread + 1
        /\ pc' = "prompt"
        /\ UNCHANGED <<loop, cwd, dirs, files, home, out, err, eof, spawn,
                       written, tkVars, srVars>>

\* The texts that made each file what it is, after the write wr: an
\* overwrite starts the history of its path anew and an append extends it.
Record(hist, wr) ==
    IF wr.done
    THEN [q \in DOMAIN hist \cup {wr.path} |->
            IF q = wr.path
            THEN Append(IF wr.append /\ q \in DOMAIN hist THEN hist[q] ELSE <<>>,
                        wr.text)
            ELSE hist[q]]
    ELSE hist

\* main.rs 16-30: the line l is read, split into words, parsed and executed;
\* the loop breaks when execute returns false, and the process dies when
\* execute panics.
Dispatch(l, os) ==
    /\ CanRead
    /\ LET toks == MainTokens(l \o NL)
           e == execute(World, parse(toks), os)
       IN /\ line' = l
          /\ tokens' = toks
          /\ nread' = nread + 1
          /\ out' = out \o e.out
          /\ err' = err \o e.err
          /\ files' = e.files
          /\ cwd' = e.cwd
          /\ spawn' = e.spawn
          /\ written' = Record(written, e.wrote)
          /\ loop' = IF e.panicked THEN "Aborted"
                     ELSE IF e.cont THEN "Running" ELSE "Terminated"
          /\ pc' = IF ~e.panicked /\ e.cont THEN "prompt" ELSE "exited"
    /\ UNCHANGED <<dirs, home, eof, tkVars, srVars>>

DispatchExit == \E l \in LinesOf["Exit"] : Dispatch(l, NoOs)
DispatchEcho == \E l \in LinesOf["Echo"] : Dispatch(l, NoOs)
DispatchPwd == \E l \in LinesOf["Pwd"] : Dispatch(l, NoOs)
DispatchType == \E l \in LinesOf["Type"] : Dispatch(l, NoOs)
DispatchEmpty == \E l \in LinesOf["Empty"] : Dispatch(l, NoOs)

\* set_current_dir may succeed or fail.
DispatchCd ==
    \E l \in LinesOf["Cd"], ok \in BOOLEAN :
        Dispatch(l, [NoOs EXCEPT !.chdir_ok = ok])

\* The spawn may fail; a child that runs writes what it likes.
DispatchExternal ==
    \E l \in LinesOf["External"] :
        \/ Dispatch(l, [NoOs EXCEPT !.spawn_ok = FALSE])
        \/ \E co \in ChildStdout, ce \in ChildStderr :
              Dispatch(l, [NoOs EXCEPT !.child_out = co, !.child_err = ce])

\* Another process removes the empty directory SubDir while the shell waits
\* for input.
RemoveDir ==
    /\ loop = "Running"
    /\ pc = "read"
    /\ SubDir \in dirs
    /\ \A p \in DOMAIN files : Parent(p) # SubDir
    /\ dirs' = dirs \ {SubDir}
    /\ UNCHANGED <<loop, pc, cwd, files, home, out, err, line, tokens, eof,
                   nread, spawn, written, tkVars, srVars>>

Next ==
    \/ Prompt
    \/ ReadEof
    \/ ReadError
    \/ ReadBlank
    \/ DispatchExit
    \/ DispatchEcho
    \/ DispatchPwd
    \/ DispatchType
    \/ DispatchCd
    \/ DispatchExternal
    \/ DispatchEmpty
    \/ RemoveDir

Init == ShInit /\ TkIdle /\ SrIdle

Spec == Init /\ [][Next]_vars

\* A read of standard input that returns, whatever it returns.
ReadStep ==
    \/ ReadEof
    \/ ReadError
    \/ ReadBlank
    \/ DispatchExit
    \/ DispatchEcho
    \/ DispatchPwd
    \/ DispatchType
    \/ DispatchCd
    \/ DispatchExternal
    \/ DispatchEmpty

\* The process is scheduled while it lives: the loop body runs on, and a
\* read that can return does return.
FairSpec == Spec /\ WF_vars(Prompt) /\ WF_vars(ReadStep)

\* ========================================================================
\* Properties
\* ========================================================================
AllOps == AppendStdoutOps \cup AppendStderrOps \cup StderrOps \cup StdoutOps

\* The operator kinds in the order of precedence, highest first.
KindOrder == <<[ops |-> AppendStdoutOps, kind |-> "AppendStdout"],
               [ops |-> AppendStderrOps, kind |-> "AppendStderr"],
               [ops |-> StderrOps, kind |-> "Stderr"],
               [ops |-> StdoutOps, kind |-> "Stdout"]>>

\* The positions of the words of args that belong to ops.
Occurrences(args, ops) == {i \in 1..Len(args) : args[i] \in ops}

\* The least element of a non-empty set of numbers.
Least(S) == CHOOSE i \in S : \A j \in S : i <= j

\* C5: split_redirect honors one operator chosen by the precedence order
\* `>>`/`1>>`, `2>>`, `2>`, `>`/`1>`: when the highest-precedence kind present
\* in the words has a following word, the result is that kind, its target is
\* the word right after the first occurrence of the kind, and the operands are
\* the words before that occurrence.
C5_Precedence ==
    sr_returned =>
        \A k \in 1..4 :
            (/\ Occurrences(sr_args, KindOrder[k].ops) # {}
             /\ \A h \in 1..(k - 1) : Occurrences(sr_args, KindOrder[h].ops) = {}
             /\ Least(Occurrences(sr_args, KindOrder[k].ops)) < Len(sr_args))
            => LET p == Least(Occurrences(sr_args, KindOrder[k].ops)) IN
                /\ sr_result.redirect.kind = KindOrder[k].kind
                /\ sr_result.redirect.file = sr_args[p + 1]
                /\ sr_result.args = SubSeq(sr_args, 1, p - 1)

\* The example of C5: [x, >>, f, >, x] gives operands [x], append-stdout to f.
C5_Witness ==
    /\ sr_returned
    /\ sr_args = <<<<"x">>, <<">", ">">>, <<"f">>, <<">">>, <<"x">>>>
    /\ sr_result = [args |-> <<<<"x">>>>,
                    redirect |-> [kind |-> "AppendStdout", file |-> <<"f">>]]

\* C6 as stated: whenever the last word is a redirection operator, the words
\* are returned unchanged with no redirect.
C6_AsStated ==
    (sr_returned /\ sr_args # <<>> /\ sr_args[Len(sr_args)] \in AllOps)
        => sr_result = [args |-> sr_args, redirect |-> None]

\* C6 amended: when the last word is a redirection operator and no
\* redirection operator occurs before it, the words are returned unchanged
\* with no redirect.
C6_DanglingOnly ==
    (/\ sr_returned
     /\ sr_args # <<>>
     /\ sr_args[Len(sr_args)] \in AllOps
     /\ \A i \in 1..(Len(sr_args) - 1) : sr_args[i] \notin AllOps)
        => sr_result = [args |-> sr_args, redirect |-> None]

C6_Witness ==
    /\ sr_returned
    /\ sr_args = <<<<"x">>, <<"f">>, <<"2", ">">>>>
    /\ sr_result = [args |-> sr_args, redirect |-> None]

\* A step of the tokenizer loop: the next character is consumed.
TokCharStep == ~tk_returned /\ tk_rest # <<>> /\ tk_rest' = Tail(tk_rest)

Whitespace == {" ", "\t"}

NoEmptyWord(ws) == \A i \in 1..Len(ws) : ws[i] # <<>>

\* What the loop does with a whitespace character that is not escaped.
TokWhitespaceRule ==
    (TokCharStep /\ Head(tk_rest) \in Whitespace /\ ~tk_backslash) =>
        IF ~tk_single /\ ~tk_double
        THEN /\ tk_current' = <<>>
             /\ tk_args' = IF tk_current # <<>>
                           THEN Append(tk_args, tk_current) ELSE tk_args
        ELSE /\ tk_current' = Append(tk_current, Head(tk_rest))
             /\ tk_args' = tk_args

TokWhitespaceExamples ==
    tk_returned =>
        /\ tk_input = <<>> => tk_result = <<>>
        /\ tk_input = <<"a", " ", " ", "a">> => tk_result = <<<<"a">>, <<"a">>>>
        /\ tk_input = <<"'", "a", " ", "a", "'">>
              => tk_result = <<<<"a", " ", "a">>>>
        /\ tk_result = tokenize(tk_input)

\* C8: tokenize never emits an empty word; unquoted, unescaped whitespace
\* ends the current word and runs of it collapse; whitespace inside quotes is
\* kept in the current word and does not split it.
C8_Whitespace ==
    /\ [](NoEmptyWord(tk_args) /\ NoEmptyWord(tk_result))
    /\ [][TokWhitespaceRule]_vars
    /\ []TokWhitespaceExamples

C8_Witness ==
    /\ tk_returned
    /\ tk_input = <<"'", "a", " ", "a", "'">>
    /\ tk_result = <<<<"a", " ", "a">>>>

\* What the loop does with a backslash and with the character after it.
TokBackslashRule ==
    TokCharStep =>
        /\ tk_backslash =>
            /\ tk_current' = Append(tk_current, Head(tk_rest))
            /\ tk_args' = tk_args
            /\ tk_single' = tk_single /\ tk_double' = tk_double
            /\ ~tk_backslash'
        /\ (~tk_backslash /\ Head(tk_rest) = "\\" /\ ~tk_single) =>
            /\ tk_current' = tk_current
            /\ tk_args' = tk_args
            /\ tk_single' = tk_single /\ tk_double' = tk_double
            /\ tk_backslash'
        /\ (Head(tk_rest) = "\\" /\ tk_single) =>
            /\ tk_current' = Append(tk_current, "\\")
            /\ tk_args' = tk_args
            /\ tk_single' /\ ~tk_backslash'
        /\ (Head(tk_rest) = "'" /\ tk_single) => ~tk_single'

TokBackslashExamples ==
    tk_returned =>
        /\ tk_input = <<"a", "\\", " ", "a">> => tk_result = <<<<"a", " ", "a">>>>
        /\ tk_input = <<"\"", "\\", "\"", "\"">> => tk_result = <<<<"\"">>>>
        /\ tk_input = <<"\"", "\\", "a", "\"">> => tk_result = <<<<"a">>>>
        /\ tk_input = <<"'", "\\", "'">> => tk_result = <<<<"\\">>>>
        /\ tk_input = <<"\\", "\\">> => tk_result = <<<<"\\">>>>

\* C9: a backslash outside single quotes is dropped and the next character is
\* appended literally without toggling a quote, starting an escape or
\* splitting a word; inside single quotes a backslash is literal and the
\* next single quote still closes the quoted section.
C9_Backslash ==
    /\ [][TokBackslashRule]_vars
    /\ [](tk_single => ~tk_backslash)
    /\ []TokBackslashExamples

C9_Witness ==
    /\ tk_returned
    /\ tk_input = <<"\"", "\\", "\"", "\"">>
    /\ tk_result = <<<<"\"">>>>

\* A step of the loop that hands the words of a line to parse and executes
\* the command.
DispatchStep == pc = "read" /\ tokens' # <<>>

\* C1: no command error ends the loop: the loop leaves Running only by the
\* break after an `exit` command, or because input ended.
C1_ErrorsContained ==
    loop # "Running" =>
        /\ loop = "Terminated"
        /\ eof \/ (tokens # <<>> /\ tokens[1] = W_exit)

\* C2: once standard input is exhausted while the loop is Running, the loop
\* eventually reaches Terminated.
C2_EofTerminates == (eof /\ loop = "Running") ~> (loop = "Terminated")

C3_Step ==
    /\ (DispatchStep /\ tokens'[1] = W_exit) =>
          /\ loop = "Running" /\ loop' = "Terminated"
          /\ out' = out /\ err' = err
          /\ files' = files /\ cwd' = cwd
    /\ (DispatchStep /\ tokens'[1] # W_exit /\ loop' # "Aborted") =>
          loop' = "Running"
    /\ loop = "Terminated" =>
          UNCHANGED <<loop, pc, line, tokens, nread, out, err, files, cwd, spawn>>

\* C3: a line whose first word is `exit` produces no output and moves the
\* loop from Running to Terminated, after which no line is read or executed;
\* any other command that completes leaves the loop Running.
C3_ExitOnly == [][C3_Step]_vars

C3_Witness ==
    /\ loop = "Terminated"
    /\ tokens = <<W_exit, A>>
    /\ nread = 2

\* C4: the words handed to the command model are tokenize(line).
C4_TokensAreTokenized == tokens = tokenize(line)

\* C7: for a `type` or `cd` line whose name/path operand looks like a
\* redirection operator and whose following words hold no redirection, no
\* redirection is resolved and no file is touched.
C7_OperandIsNotOperator ==
    [][(/\ DispatchStep
        /\ tokens'[1] \in {W_type, W_cd}
        /\ Len(tokens') >= 2
        /\ tokens'[2] \in AllOps
        /\ split_redirect(SubSeq(tokens', 3, Len(tokens'))).redirect = None)
       => files' = files]_vars

C10_Step ==
    LET sr == split_redirect(Tail(tokens'))
        path == Resolve(cwd, sr.redirect.file)
        text == join(sr.args) \o <<"\n">>
        old == IF path \in DOMAIN files THEN files[path] ELSE <<>>
    IN  (/\ DispatchStep
         /\ tokens'[1] = W_echo
         /\ sr.redirect.kind \in {"Stdout", "AppendStdout"}
         /\ loop' # "Aborted")
        => /\ path \in DOMAIN files'
           /\ files'[path] = IF sr.redirect.kind = "Stdout" THEN text
                             ELSE old \o text
           /\ \A q \in DOMAIN files' \ {path} :
                 q \in DOMAIN files /\ files'[q] = files[q]
           /\ out' = out
           /\ err' = err

\* C10: an Echo whose arguments resolve to a stdout redirection (overwrite or
\* append) to file f writes to f exactly the operand words joined by single
\* spaces plus one newline, and writes nothing to the terminal.
C10_EchoToFile == [][C10_Step]_vars

C10_Witness ==
    /\ tokens = <<W_echo, A, A, (<<">", ">">>), F>>
    /\ files = (<<"/", "f">> :> <<"a", "\n", "a", " ", "a", "\n">>)
    /\ out = RootDir \o MsgPrompt
    /\ err = <<>>
    /\ loop = "Running"

C11_Step ==
    LET sr == split_redirect(Tail(tokens'))
        path == Resolve(cwd, sr.redirect.file)
    IN  (/\ DispatchStep
         /\ tokens'[1] = W_echo
         /\ sr.redirect.kind \in {"Stderr", "AppendStderr"})
        => /\ out' = out \o join(sr.args) \o <<"\n">>
           /\ loop' # "Aborted" =>
                 /\ err' = err
                 /\ path \in DOMAIN files'
                 /\ files'[path] =
                       IF sr.redirect.kind = "AppendStderr"
                          /\ path \in DOMAIN files
                       THEN files[path] ELSE <<>>
                 /\ \A q \in DOMAIN files' \ {path} :
                       q \in DOMAIN files /\ files'[q] = files[q]

\* C11: an Echo whose arguments resolve to a stderr redirection (`2>` or
\* `2>>`) to file f prints the operand words joined by single spaces plus a
\* newline on standard output, and when it completes f exists with no echo
\* text in it: empty after `2>`, created empty or left as it was after `2>>`.
C11_EchoStderr == [][C11_Step]_vars

C11_Witness ==
    /\ tokens = <<W_echo, A, (<<"2", ">", ">">>), F>>
    /\ files = (<<"/", "f">> :> <<"a", "\n">>)
    /\ out = RootDir \o MsgPrompt \o <<"a", "\n">>
    /\ err = <<>>
    /\ loop = "Running"

C12_Step ==
    LET r == split_redirect(Tail(tokens')).redirect
        path == Resolve(cwd, r.file)
        msg == TypeOutput(tokens'[2])
        base == IF r.kind = "AppendStderr" /\ path \in DOMAIN files
                THEN files[path] ELSE <<>>
    IN  (/\ DispatchStep
         /\ tokens'[1] = W_type
         /\ Len(tokens') >= 2
         /\ r.kind \in {"Stderr", "AppendStderr"}
         /\ loop' # "Aborted")
        => /\ out' = out
           /\ err' = err
           /\ path \in DOMAIN files'
           /\ files'[path] \in {base \o msg, base \o msg \o <<"\n">>}

\* C12: a Type with a stderr redirection to file f, `2>` or `2>>`, that
\* completes writes its classification message to f (with or without a line
\* terminator) and nothing to the terminal.
C12_TypeStderrToFile == [][C12_Step]_vars

\* The directory a `cd` line names.
CdTarget == Target(World, tokens'[2])

C13_Step ==
    LET r == split_redirect(Tail(tokens')).redirect
        msg == MsgCd \o CdTarget \o MsgNoSuchDir
        t == TypeReport(World, msg, r)
    IN  (/\ DispatchStep
         /\ tokens'[1] = W_cd
         /\ Len(tokens') >= 2
         /\ ~is_dir(World, CdTarget))
        => /\ files' = t.files
           /\ (out' = out /\ err' = err) <=> (t.out = <<>> /\ t.err = <<>>)

\* C13: under every redirect kind a Cd that reports a missing directory
\* leaves the files as Type would leave them when reporting the same text
\* under the same redirect, and prints on the terminal exactly when Type
\* would.
C13_CdRoutesAsType == [][C13_Step]_vars

C14_Step ==
    LET r == split_redirect(Tail(tokens')).redirect
        path == Resolve(cwd, r.file)
        msg == MsgCd \o CdTarget \o MsgNoSuchDir
        base == IF IsAppend(r) /\ path \in DOMAIN files
                THEN files[path] ELSE <<>>
    IN  (/\ DispatchStep
         /\ tokens'[1] = W_cd
         /\ Len(tokens') >= 2
         /\ ~is_dir(World, CdTarget))
        => /\ cwd' = cwd
           /\ out' = out
           /\ r.kind = "None" =>
                 /\ err' = err \o msg \o <<"\n">>
                 /\ files' = files
                 /\ loop' = "Running"
           /\ (r.kind # "None" /\ loop' # "Aborted") =>
                 /\ err' = err
                 /\ path \in DOMAIN files'
                 /\ files'[path] = base \o msg
                 /\ loop' = "Running"

\* C14: a Cd whose resolved path is not an existing directory leaves the
\* working directory unchanged and emits exactly
\* `cd: <path>: No such file or directory`, on standard error or into the
\* redirect file, and the loop stays Running.
C14_CdMissingDir == [][C14_Step]_vars

C14_Witness ==
    /\ tokens = <<W_cd, A>>
    /\ err = MsgCd \o A \o MsgNoSuchDir \o <<"\n">>
    /\ cwd = RootDir
    /\ files = << >>
    /\ loop = "Running"
    /\ pc = "prompt"

\* The first word of the line makes it an External command, lib.rs 25-39.
IsExternalLine == tokens'[1] \notin {W_exit, W_echo, W_pwd, W_type, W_cd}

C15_Step ==
    (/\ DispatchStep
     /\ IsExternalLine
     /\ find_executable_in_path(tokens'[1]) = <<>>)
    => /\ ~spawn'.spawned
       /\ out' = out \o tokens'[1] \o MsgCommandNotFound \o <<"\n">>
       /\ err' = err
       /\ files' = files
       /\ cwd' = cwd
       /\ loop' = "Running"

\* C15: an External whose program the executable lookup does not find spawns
\* no process, prints `<program>: command not found` on the terminal, and
\* creates or modifies no file, whatever redirection its arguments hold.
C15_NotFound == [][C15_Step]_vars

C15_Witness ==
    /\ tokens = <<MissingProgram, (<<">">>), F>>
    /\ out = RootDir \o MsgPrompt \o MissingProgram \o MsgCommandNotFound
                \o <<"\n">>
    /\ files = << >>
    /\ ~spawn.spawned
    /\ loop = "Running"

C16_Step ==
    LET sr == split_redirect(Tail(tokens'))
        r == sr.redirect
        path == Resolve(cwd, r.file)
        base == IF IsAppend(r) /\ path \in DOMAIN files
                THEN files[path] ELSE <<>>
        to_stdout == r.kind \in {"Stdout", "AppendStdout"}
        redirected == IF to_stdout THEN spawn'.stdout ELSE spawn'.stderr
        other == IF to_stdout THEN spawn'.stderr ELSE spawn'.stdout
    IN  (/\ DispatchStep
         /\ IsExternalLine
         /\ spawn'.spawned
         /\ r.kind # "None")
        => /\ spawn'.program = tokens'[1]
           /\ spawn'.args = sr.args
           /\ loop' # "Aborted" =>
                 /\ path \in DOMAIN files'
                 /\ files'[path] = base \o redirected
                 /\ \A q \in DOMAIN files' \ {path} :
                       q \in DOMAIN files /\ files'[q] = files[q]
                 /\ \/ out' = out \o from_utf8_lossy(other) /\ err' = err
                    \/ err' = err \o from_utf8_lossy(other) /\ out' = out

\* C16: an External with a found program and a redirection to file f is
\* spawned with exactly the operand words as arguments; when it completes, f
\* receives (replacing or appended) exactly the bytes captured from the
\* redirected stream, and the terminal receives exactly the other stream,
\* decoded lossily.
C16_ExternalRouting == [][C16_Step]_vars

C16_Witness ==
    /\ tokens = <<FoundProgram, A, (<<"2", ">">>), F>>
    /\ spawn.spawned
    /\ spawn.args = <<A>>
    /\ spawn.stdout # <<>>
    /\ spawn.stderr # <<>>
    /\ files = (<<"/", "f">> :> spawn.stderr)
    /\ out = RootDir \o MsgPrompt \o from_utf8_lossy(spawn.stdout)
    /\ err = <<>>
    /\ loop = "Running"

RECURSIVE Concat(_)
\* The texts of a history, one after the other.
Concat(texts) ==
    IF texts = <<>> THEN <<>> ELSE Head(texts) \o Concat(Tail(texts))

\* C17: the content of every file is the concatenation, in execution order,
\* of the texts written to it since the most recent overwrite redirection to
\* it, or since an append redirection created it; no other file exists.
C17_FileIsConcatenation ==
    /\ DOMAIN files = DOMAIN written
    /\ \A p \in DOMAIN files : files[p] = Concat(written[p])

C17_Witness ==
    /\ tokens = <<FoundProgram, (<<">", ">">>), F>>
    /\ written = (<<"/", "f">> :> <<(<<"a", "\n">>), spawn.stdout>>)
    /\ spawn.stdout # <<>>
    /\ files = (<<"/", "f">> :> (<<"a", "\n">> \o spawn.stdout))

C18_Step ==
    /\ cwd' # cwd =>
          /\ DispatchStep
          /\ tokens'[1] = W_cd
          /\ Len(tokens') >= 2
          /\ is_dir(World, CdTarget)
          /\ cwd' = Resolve(cwd, CdTarget)
    /\ (DispatchStep /\ tokens'[1] = W_pwd /\ loop' # "Aborted") =>
          out' = out \o cwd \o <<"\n">>

\* C18: the working directory changes only in the dispatch of a Cd whose
\* resolved path is an existing directory, and every Pwd that completes
\* writes the working directory, so two Pwd commands with no Cd between them
\* write the same path.
C18_OnlyCdMoves == [][C18_Step]_vars

C18_Witness ==
    /\ tokens = <<W_pwd>>
    /\ nread = 2
    /\ cwd = SubDir
    /\ out = LastComponent(SubDir) \o MsgPrompt \o SubDir \o <<"\n">>
    /\ loop = "Running"

C19_Step ==
    (/\ DispatchStep
     /\ IsExternalLine
     /\ spawn'.spawned
     /\ loop' # "Aborted")
    => /\ out' \in {out, out \o from_utf8_lossy(spawn'.stdout)}
       /\ err' \in {err, err \o from_utf8_lossy(spawn'.stderr)}

\* C19: under every redirect kind, an External with a found program that
\* completes adds to the shell's standard output nothing but the child's
\* standard output, and to the shell's standard error nothing but the
\* child's standard error.
C19_StreamsKept == [][C19_Step]_vars

C20_Step ==
    (/\ DispatchStep
     /\ tokens'[1] \in {W_echo, W_type, W_cd})
    => \A p \in DOMAIN written' :
          (p \notin DOMAIN written \/ written'[p] # written[p]) =>
              LET text == written'[p][Len(written'[p])]
              IN  text = <<>> \/ text[Len(text)] = "\n"

\* C20: every non-empty text that Echo, Type or Cd writes to a redirect
\* target file ends with a newline.
C20_LinesInFiles == [][C20_Step]_vars

====
